---- MODULE Spec2Model ----
(***************************************************************************)
(* Model of the POST /generate-visualization endpoint of server.js.       *)
(*                                                                         *)
(* server.js holds two revisions of the server one after the other:       *)
(* lines 1-214 (revision 1) and lines 215-623 (revision 2).  Both         *)
(* register app.post('/generate-visualization'); `version` says which     *)
(* revision is the one deployed.                                           *)
(*                                                                         *)
(* A JavaScript string is the sequence of its characters, each character  *)
(* a one-character TLA+ string.  A JavaScript value is a record           *)
(* [t, s, n]: its type tag, its characters when a string, its number      *)
(* when a number.                                                          *)
(***************************************************************************)
EXTENDS Integers, Sequences, FiniteSets, TLC

\* ---------------------------------------------------------------- bounds
\* number of requests that may be in flight together
NumRequests == 2
\* words per query in the single-request specifications
MaxWords == 2
\* chunks per text returned by the inference service
MaxChunks == 2

\* most words in a query handed to the fallback on its own
FnMaxWords == 2
\* most calls of generateVisualization that reach the server
MaxFetches == 2

Requests == 1..NumRequests

\* ------------------------------------------------------ JavaScript values
Undef == [t |-> "undefined", s |-> <<>>, n |-> 0]

Str(chars) == [t |-> "string", s |-> chars, n |-> 0]

Num(k) == [t |-> "number", s |-> <<>>, n |-> k]

IsString(v) == v.t = "string"

\* ToBoolean: undefined, "" and 0 are falsy
Truthy(v) ==
  CASE v.t = "string" -> v.s # <<>>
    [] v.t = "number" -> v.n # 0
    [] OTHER -> FALSE

Rep(c, k) == [i \in 1..k |-> c]

UpperLetters == <<"A", "B", "C", "D", "E", "F", "G", "H", "I", "J", "K", "L", "M", "N", "O", "P", "Q", "R", "S", "T", "U", "V", "W", "X", "Y", "Z">>

LowerLetters == <<"a", "b", "c", "d", "e", "f", "g", "h", "i", "j", "k", "l", "m", "n", "o", "p", "q", "r", "s", "t", "u", "v", "w", "x", "y", "z">>

LowerChar(c) ==
  IF \E i \in 1..26 : UpperLetters[i] = c
    THEN LowerLetters[CHOOSE i \in 1..26 : UpperLetters[i] = c]
    ELSE c

UpperChar(c) ==
  IF \E i \in 1..26 : LowerLetters[i] = c
    THEN UpperLetters[CHOOSE i \in 1..26 : LowerLetters[i] = c]
    ELSE c

\* String.prototype.toLowerCase
ToLowerCase(str) == [i \in 1..Len(str) |-> LowerChar(str[i])]

\* String.prototype.includes
Includes(str, k) ==
  \E i \in 1..(Len(str) - Len(k) + 1) : \A j \in 1..Len(k) : str[i + j - 1] = k[j]

\* String.prototype.substring(0, k)
Substring0(str, k) == SubSeq(str, 1, IF Len(str) < k THEN Len(str) ELSE k)

\* keywords.some(keyword => lowerQuery.includes(keyword))
SomeIncluded(str, keywords) ==
  \E i \in 1..Len(keywords) : Includes(str, keywords[i])

IsSpace(c) == c = " "

\* number of whitespace characters str starts with
LeadingSpaces(str) ==
  IF \A i \in 1..Len(str) : IsSpace(str[i])
    THEN Len(str)
    ELSE (CHOOSE i \in 1..Len(str) :
            /\ ~IsSpace(str[i])
            /\ \A j \in 1..(i - 1) : IsSpace(str[j])) - 1

\* str.replace(/^(alt1|alt2|...)\s+/i, '')
StripLeading(str, alts) ==
  LET low == ToLowerCase(str)
      hit(a) == /\ Len(str) > Len(a)
                /\ SubSeq(low, 1, Len(a)) = a
                /\ IsSpace(str[Len(a) + 1])
      hits == {i \in 1..Len(alts) : hit(alts[i])}
  IN  IF hits = {}
        THEN str
        ELSE LET a == alts[CHOOSE i \in hits : \A j \in hits : i <= j]
                 rest == SubSeq(str, Len(a) + 1, Len(str))
             IN  SubSeq(rest, LeadingSpaces(rest) + 1, Len(rest))

\* query.charAt(0).toUpperCase() + query.slice(1)
Capitalize(str) ==
  IF str = <<>> THEN <<>> ELSE <<UpperChar(str[1])>> \o Tail(str)

\* ------------------------------------------------------------- constants
GeneratedVisualization == <<"G", "e", "n", "e", "r", "a", "t", "e", "d", " ", "V", "i", "s", "u", "a", "l", "i", "z", "a", "t", "i", "o", "n">>

QueryIsRequired == <<"Q", "u", "e", "r", "y", " ", "i", "s", " ", "r", "e", "q", "u", "i", "r", "e", "d", ".">>

Ellipsis == <<".", ".", ".">>

validGeoms == {<<"p", "o", "i", "n", "t">>, <<"l", "i", "n", "e">>, <<"b", "a", "r">>, <<"a", "r", "e", "a">>}

\* a visualisation specification object
MkSpec(g, ti, xx, yy) == [geom |-> g, title |-> ti, x |-> xx, y |-> yy]

NoSpec == MkSpec(Undef, Undef, Undef, Undef)

\* title length limits of generateFallbackVisualization
TitleLimit == 50

TitleKeep == 47

\* field length limits of validateAndCleanSpec
MaxTitle == 100

MaxAxis == 50

\* ------------------------------------------- revision 1 keyword fallback
\* the key of the last entry of pairs (<<keyword, label>>) whose keyword
\* occurs in str: a run of `if (includes(k)) v = label` statements
LastHit(str, pairs, default) ==
  LET hits == {i \in 1..Len(pairs) : Includes(str, pairs[i][1])}
  IN  IF hits = {} THEN default
      ELSE pairs[CHOOSE i \in hits : \A j \in hits : j <= i][2]

GeomOfV1(lowerQuery) ==
  IF SomeIncluded(lowerQuery, <<<<"s", "c", "a", "t", "t", "e", "r">>, <<"c", "o", "r", "r", "e", "l", "a", "t", "i", "o", "n">>, <<"r", "e", "l", "a", "t", "i", "o", "n", "s", "h", "i", "p">>>>)
    THEN <<"p", "o", "i", "n", "t">>
  ELSE IF SomeIncluded(lowerQuery, <<<<"l", "i", "n", "e">>, <<"t", "r", "e", "n", "d">>, <<"t", "i", "m", "e">>, <<"o", "v", "e", "r", " ", "t", "i", "m", "e">>>>)
    THEN <<"l", "i", "n", "e">>
  ELSE IF SomeIncluded(lowerQuery, <<<<"a", "r", "e", "a">>, <<"f", "i", "l", "l", "e", "d">>>>)
    THEN <<"a", "r", "e", "a">>
  ELSE <<"b", "a", "r">>

YPairsV1 ==
  << <<<<"p", "r", "i", "c", "e">>, <<"p", "r", "i", "c", "e">>>>, <<<<"s", "a", "l", "e", "s">>, <<"s", "a", "l", "e", "s">>>>, <<<<"r", "e", "v", "e", "n", "u", "e">>, <<"r", "e", "v", "e", "n", "u", "e">>>>,
     <<<<"c", "o", "u", "n", "t">>, <<"c", "o", "u", "n", "t">>>>, <<<<"a", "m", "o", "u", "n", "t">>, <<"a", "m", "o", "u", "n", "t">>>> >>

XPairsV1 ==
  << <<<<"m", "o", "n", "t", "h">>, <<"m", "o", "n", "t", "h", "s">>>>, <<<<"y", "e", "a", "r">>, <<"y", "e", "a", "r", "s">>>>, <<<<"r", "e", "g", "i", "o", "n">>, <<"r", "e", "g", "i", "o", "n", "s">>>>,
     <<<<"c", "a", "t", "e", "g", "o", "r", "y">>, <<"c", "a", "t", "e", "g", "o", "r", "i", "e", "s">>>>, <<<<"p", "r", "o", "d", "u", "c", "t">>, <<"p", "r", "o", "d", "u", "c", "t", "s">>>> >>

TitleOfV1(query) ==
  LET title == Capitalize(query)
  IN  IF Len(title) > TitleLimit
        THEN Substring0(title, TitleKeep) \o Ellipsis
        ELSE title

GenerateFallbackV1(query) ==
  LET lowerQuery == ToLowerCase(query)
  IN  MkSpec(Str(GeomOfV1(lowerQuery)),
             Str(TitleOfV1(query)),
             Str(LastHit(lowerQuery, XPairsV1, <<"c", "a", "t", "e", "g", "o", "r", "i", "e", "s">>)),
             Str(LastHit(lowerQuery, YPairsV1, <<"v", "a", "l", "u", "e", "s">>)))

\* ------------------------------------------- revision 2 keyword fallback
GeomOf(lowerQuery) ==
  IF SomeIncluded(lowerQuery,
       <<<<"s", "c", "a", "t", "t", "e", "r">>, <<"c", "o", "r", "r", "e", "l", "a", "t", "i", "o", "n">>, <<"r", "e", "l", "a", "t", "i", "o", "n", "s", "h", "i", "p">>, <<"v", "s">>, <<"a", "g", "a", "i", "n", "s", "t">>>>)
    THEN <<"p", "o", "i", "n", "t">>
  ELSE IF SomeIncluded(lowerQuery,
       <<<<"l", "i", "n", "e">>, <<"t", "r", "e", "n", "d">>, <<"t", "i", "m", "e">>, <<"o", "v", "e", "r", " ", "t", "i", "m", "e">>, <<"t", "i", "m", "e", "l", "i", "n", "e">>, <<"p", "r", "o", "g", "r", "e", "s", "s", "i", "o", "n">>>>)
    THEN <<"l", "i", "n", "e">>
  ELSE IF SomeIncluded(lowerQuery, <<<<"a", "r", "e", "a">>, <<"f", "i", "l", "l", "e", "d">>, <<"c", "u", "m", "u", "l", "a", "t", "i", "v", "e">>>>)
    THEN <<"a", "r", "e", "a">>
  ELSE <<"b", "a", "r">>

\* entries are <<key, keywords>>, in the order of Object.entries
yKeywords ==
  << <<<<"p", "r", "i", "c", "e">>, <<<<"p", "r", "i", "c", "e">>, <<"c", "o", "s", "t">>, <<"e", "x", "p", "e", "n", "s", "e">>>> >>,
     <<<<"s", "a", "l", "e", "s">>, <<<<"s", "a", "l", "e", "s">>, <<"r", "e", "v", "e", "n", "u", "e">>, <<"e", "a", "r", "n", "i", "n", "g", "s">>>> >>,
     <<<<"c", "o", "u", "n", "t">>, <<<<"c", "o", "u", "n", "t">>, <<"n", "u", "m", "b", "e", "r">>, <<"q", "u", "a", "n", "t", "i", "t", "y">>>> >>,
     <<<<"a", "m", "o", "u", "n", "t">>, <<<<"a", "m", "o", "u", "n", "t">>, <<"t", "o", "t", "a", "l">>, <<"s", "u", "m">>>> >>,
     <<<<"r", "a", "t", "i", "n", "g">>, <<<<"r", "a", "t", "i", "n", "g">>, <<"s", "c", "o", "r", "e">>, <<"q", "u", "a", "l", "i", "t", "y">>>> >>,
     <<<<"t", "r", "a", "f", "f", "i", "c">>, <<<<"t", "r", "a", "f", "f", "i", "c">>, <<"v", "i", "s", "i", "t", "s">>, <<"v", "i", "e", "w", "s">>>> >>,
     <<<<"g", "r", "o", "w", "t", "h">>, <<<<"g", "r", "o", "w", "t", "h">>, <<"i", "n", "c", "r", "e", "a", "s", "e">>, <<"c", "h", "a", "n", "g", "e">>>> >> >>

xKeywords ==
  << <<<<"m", "o", "n", "t", "h", "s">>, <<<<"m", "o", "n", "t", "h">>, <<"m", "o", "n", "t", "h", "l", "y">>, <<"j", "a", "n">>, <<"f", "e", "b">>, <<"m", "a", "r">>>> >>,
     <<<<"y", "e", "a", "r", "s">>, <<<<"y", "e", "a", "r">>, <<"y", "e", "a", "r", "l", "y">>, <<"a", "n", "n", "u", "a", "l">>>> >>,
     <<<<"r", "e", "g", "i", "o", "n", "s">>, <<<<"r", "e", "g", "i", "o", "n">>, <<"l", "o", "c", "a", "t", "i", "o", "n">>, <<"a", "r", "e", "a">>, <<"c", "i", "t", "y">>>> >>,
     <<<<"c", "a", "t", "e", "g", "o", "r", "i", "e", "s">>, <<<<"c", "a", "t", "e", "g", "o", "r", "y">>, <<"t", "y", "p", "e">>, <<"k", "i", "n", "d">>>> >>,
     <<<<"p", "r", "o", "d", "u", "c", "t", "s">>, <<<<"p", "r", "o", "d", "u", "c", "t">>, <<"i", "t", "e", "m">>, <<"g", "o", "o", "d", "s">>>> >>,
     <<<<"t", "i", "m", "e">>, <<<<"t", "i", "m", "e">>, <<"p", "e", "r", "i", "o", "d">>, <<"d", "a", "t", "e">>>> >> >>

\* for (const [key, keywords] of Object.entries(dict)) { if (some) { v = key; break } }
FirstHit(str, dict, default) ==
  LET hits == {i \in 1..Len(dict) : SomeIncluded(str, dict[i][2])}
  IN  IF hits = {} THEN default
      ELSE dict[CHOOSE i \in hits : \A j \in hits : i <= j][1]

\* the title cut one character too late
TitleOfLongCut(query) ==
  LET title0 == Capitalize(query)
      title1 == IF Len(title0) > TitleLimit
                  THEN Substring0(title0, TitleKeep + 1) \o Ellipsis
                  ELSE title0
      title2 == StripLeading(title1, <<<<"s", "h", "o", "w">>, <<"c", "r", "e", "a", "t", "e">>, <<"d", "i", "s", "p", "l", "a", "y">>, <<"g", "e", "n", "e", "r", "a", "t", "e">>>>)
      title3 == StripLeading(title2, <<<<"a">>, <<"a", "n">>, <<"t", "h", "e">>>>)
  IN  IF title3 = <<>> THEN GeneratedVisualization ELSE title3

TitleOf(query) ==
  LET title0 == Capitalize(query)
      title1 == IF Len(title0) > TitleLimit
                  THEN Substring0(title0, TitleKeep) \o Ellipsis
                  ELSE title0
      title2 == StripLeading(title1, <<<<"s", "h", "o", "w">>, <<"c", "r", "e", "a", "t", "e">>, <<"d", "i", "s", "p", "l", "a", "y">>, <<"g", "e", "n", "e", "r", "a", "t", "e">>>>)
      title3 == StripLeading(title2, <<<<"a">>, <<"a", "n">>, <<"t", "h", "e">>>>)
  IN  IF title3 = <<>> THEN GeneratedVisualization ELSE title3

GenerateFallback(query) ==
  LET lowerQuery == ToLowerCase(query)
  IN  MkSpec(Str(GeomOf(lowerQuery)),
             Str(TitleOf(query)),
             Str(FirstHit(lowerQuery, xKeywords, <<"c", "a", "t", "e", "g", "o", "r", "i", "e", "s">>)),
             Str(FirstHit(lowerQuery, yKeywords, <<"v", "a", "l", "u", "e", "s">>)))

\* ------------------------------------------------------------ validation
\* revision 2: validateAndCleanSpec
\* the clamp one character too short
CleanStringShort(v, limit, default) ==
  IF Truthy(v) /\ IsString(v) THEN Str(Substring0(v.s, limit - 1)) ELSE Str(default)

CleanString(v, limit, default) ==
  IF Truthy(v) /\ IsString(v) THEN Str(Substring0(v.s, limit)) ELSE Str(default)

validateAndCleanSpec(spec) ==
  MkSpec(IF IsString(spec.geom) /\ spec.geom.s \in validGeoms
           THEN spec.geom ELSE Str(<<"b", "a", "r">>),
         CleanString(spec.title, MaxTitle, GeneratedVisualization),
         CleanString(spec.x, MaxAxis, <<"c", "a", "t", "e", "g", "o", "r", "i", "e", "s">>),
         CleanString(spec.y, MaxAxis, <<"v", "a", "l", "u", "e", "s">>))

\* revision 1: the validation written out in the handler
ValidateInline(spec) ==
  MkSpec(IF ~Truthy(spec.geom) \/ ~(IsString(spec.geom) /\ spec.geom.s \in validGeoms)
           THEN Str(<<"b", "a", "r">>) ELSE spec.geom,
         IF ~Truthy(spec.title) THEN Str(GeneratedVisualization) ELSE spec.title,
         IF ~Truthy(spec.x) THEN Str(<<"c", "a", "t", "e", "g", "o", "r", "i", "e", "s">>) ELSE spec.x,
         IF ~Truthy(spec.y) THEN Str(<<"v", "a", "l", "u", "e", "s">>) ELSE spec.y)

\* --------------------------------------- the inference service's answers
\* The generated text is a sequence of chunks: prose, a brace group
\* {...} (which JSON.parse accepts or not; when it does, obj is the object)
\* or a bare "geom": "..." fragment outside braces.
Chunk(k, p, o) == [kind |-> k, parses |-> p, obj |-> o]

Prose == Chunk("prose", FALSE, NoSpec)

BadBraces == Chunk("braces", FALSE, NoSpec)

Fragment == Chunk("fragment", FALSE, NoSpec)

ObjConformant == MkSpec(Str(<<"l", "i", "n", "e">>), Str(<<"S", "a", "l", "e", "s">>), Str(<<"m", "o", "n", "t", "h">>), Str(<<"s", "a", "l", "e", "s">>))

ObjRepair == MkSpec(Str(<<"p", "i", "e">>), Undef, Str(<<>>), Num(7))

ObjOverlong ==
  MkSpec(Str(<<"a", "r", "e", "a">>), Str(Rep("t", MaxTitle + 1)),
         Str(Rep("x", MaxAxis + 1)), Str(Rep("y", MaxAxis + 1)))

ObjBoundary ==
  MkSpec(Str(<<"p", "o", "i", "n", "t">>), Str(Rep("t", MaxTitle)),
         Str(Rep("x", MaxAxis)), Str(Rep("y", MaxAxis)))

ObjNoGeom == MkSpec(Str(<<>>), Num(5), Str(<<"x">>), Str(<<"y">>))

SampleObjects == {ObjConformant, ObjRepair, ObjOverlong, ObjBoundary, ObjNoGeom}

Chunks == {Prose, BadBraces, Fragment} \cup {Chunk("braces", TRUE, o) : o \in SampleObjects}

LLMTexts == UNION {[1..k -> Chunks] : k \in 0..MaxChunks}

\* what awaiting callHuggingFaceAPI yields: an exception, a generated_text
\* that is not a string, or a text ('' when generated_text is missing)
Outcome(k, txt) == [kind |-> k, text |-> txt]

LLMOutcomes ==
  {Outcome("throw", <<>>), Outcome("nonstring", <<>>)}
    \cup {Outcome("text", txt) : txt \in LLMTexts}

\* the answers given when several requests are in flight: a failure, an
\* empty text, a conformant object, an object to repair behind a brace
\* group that does not parse, an object whose geom is empty
ConcLLMOutcomes ==
  {Outcome("throw", <<>>),
   Outcome("text", <<>>),
   Outcome("text", <<Chunk("braces", TRUE, ObjConformant)>>),
   Outcome("text", <<BadBraces, Chunk("braces", TRUE, ObjRepair)>>),
   Outcome("text", <<Chunk("braces", TRUE, ObjNoGeom)>>)}

Extracted(f, o) == [found |-> f, obj |-> o]

Null == Extracted(FALSE, NoSpec)

\* revision 1: text.match(/\{[^}]*\}/) is the first brace group only
extractJSONFromResponseV1(text) ==
  LET groups == SelectSeq(text, LAMBDA c : c.kind = "braces")
  IN  IF groups # <<>> /\ groups[1].parses
        THEN Extracted(TRUE, groups[1].obj)
        ELSE Null

\* revision 2: three patterns in turn, every match of each, the first match
\* that parses and has a truthy geom
extractJSONFromResponse(text) ==
  LET withGeom == SelectSeq(text, LAMBDA c :
                    c.kind = "braces" /\ (c.parses => c.obj.geom # Undef))
      anyBraces == SelectSeq(text, LAMBDA c : c.kind = "braces")
      geomField == SelectSeq(text, LAMBDA c : c.kind = "fragment")
      matches == withGeom \o anyBraces \o geomField
      good == SelectSeq(matches, LAMBDA c : c.parses /\ Truthy(c.obj.geom))
  IN  IF good # <<>> THEN Extracted(TRUE, good[1].obj) ELSE Null

\* ------------------------------------------------------ request payloads
Words == {<<>>, <<"S", "h", "o", "w">>, <<"a">>, <<"s", "a", "l", "e", "s">>, <<"t", "i", "m", "e">>, <<"R", "e", "g", "i", "o", "n">>}

RECURSIVE JoinWords(_)
\* the words of ws separated by single spaces
JoinWords(ws) ==
  IF Len(ws) = 1 THEN ws[1] ELSE ws[1] \o <<" ">> \o JoinWords(Tail(ws))

QueryStrings(maxw) ==
  {JoinWords(ws) : ws \in UNION {[1..k -> Words] : k \in 1..maxw}}

\* req.body.query: missing, a number, or a string (possibly empty)
QueryValues(maxw) == {Undef, Num(42)} \cup {Str(q) : q \in QueryStrings(maxw)}

\* the queries sent when several requests are in flight
ConcQueryStrings == {<<"s", "a", "l", "e", "s">>, <<"t", "i", "m", "e">>}

ConcQueryValues == {Undef} \cup {Str(q) : q \in ConcQueryStrings}

\* ----------------------------------------------------------------- state
VARIABLES
  version,      \* the deployed revision of server.js: 1 or 2
  HF_API_KEY,   \* process.env.HF_API_KEY
  pc,           \* per request: idle, received, awaitLLM, done, rejected
  reqQuery,     \* per request: req.body.query as sent by the client
  userQuery,    \* per handler invocation: const userQuery
  resp,         \* per request: the response sent (status 0: none yet)
  nresp,        \* per request: number of responses sent
  trace,        \* per request: what the handler has done so far
  fnHist,       \* a function under study: its input, then each result
  userInput,    \* browser: userInput.value
  generateButton, \* browser: textContent and disabled of the button
  fetches,      \* browser: the generateVisualization calls that fetched
  myChart,      \* browser: the call whose spec the chart shows (0: none)
  specDisplay,  \* browser: the call whose spec #spec-display shows
  alerted       \* browser: the message of the last alert

serverVars == <<version, HF_API_KEY, pc, reqQuery, userQuery, resp, nresp, trace>>

browserVars == <<userInput, generateButton, fetches, myChart, specDisplay, alerted>>

vars == <<version, HF_API_KEY, pc, reqQuery, userQuery, resp, nresp, trace,
          fnHist, userInput, generateButton, fetches, myChart, specDisplay,
          alerted>>

Response(st, err, sp) == [status |-> st, error |-> err, spec |-> sp]

NoResponse == Response(0, Undef, NoSpec)

\* outbound: requests issued to the inference service; translated: the
\* keyword fallback was called; validated: the validation ran on what was
\* sent; llmFailed: the service call or the extraction threw; overlap: the
\* service was called while another request was waiting for it
NoTrace ==
  [outbound |-> 0, translated |-> FALSE, validated |-> FALSE,
   llmFailed |-> FALSE, overlap |-> FALSE]

\* one module-level variable shared by all invocations
SharedLocal(r) == 1

\* the closure cell holding the locals of the handler invocation for r
Local(r) == r

\* if (userQuery === undefined)
QueryIsMissingStrict(q) == q = Undef

\* if (!userQuery)
QueryIsMissing(q) == ~Truthy(q)

\* if (!HF_API_KEY), revision 2 only; revision 1 calls the service regardless
SkipsLLM(v, key) == v = 2 /\ ~Truthy(key)

\* generateFallbackVisualization of each revision, tabulated over the query
\* strings of the model
AllQueryStrings ==
  QueryStrings(MaxWords) \cup ConcQueryStrings

FallbackTableV1 == [query \in AllQueryStrings |-> GenerateFallbackV1(query)]

FallbackTable == [query \in AllQueryStrings |-> GenerateFallback(query)]

FallbackFor(v, query) ==
  IF v = 1 THEN FallbackTableV1[query] ELSE FallbackTable[query]

\* what the handler sends for a spec on its main path
ValidateFor(v, spec) ==
  IF v = 1 THEN ValidateInline(spec) ELSE validateAndCleanSpec(spec)

\* vizSpec after the inner try/catch around the service call
ExtractFor(v, o) ==
  IF o.kind # "text" THEN Null
  ELSE IF v = 1 THEN extractJSONFromResponseV1(o.text)
  ELSE IF o.text # <<>> THEN extractJSONFromResponse(o.text)
  ELSE Null

\* the fallback never replaces a missing vizSpec
UsesFallbackNever(ext) == FALSE

\* if (!vizSpec)
UsesFallback(ext) == ~ext.found

\* the button as the page is loaded
ButtonReady == [textContent |-> <<"G", "e", "n", "e", "r", "a", "t", "e", " ", "C", "h", "a", "r", "t">>, disabled |-> FALSE]

\* the button while a call is waiting for the server
ButtonBusy == [textContent |-> <<"G", "e", "n", "e", "r", "a", "t", "i", "n", "g", ".", ".", ".">>, disabled |-> TRUE]

BrowserInit ==
  /\ userInput = <<>>
  /\ generateButton = ButtonReady
  /\ fetches = <<>>
  /\ myChart = 0
  /\ specDisplay = 0
  /\ alerted = <<>>

ServerInit ==
  /\ version \in {1, 2}
  /\ HF_API_KEY \in {Undef, Str(<<"h", "f", "_", "k", "e", "y">>)}
  /\ pc = [r \in Requests |-> "idle"]
  /\ reqQuery = [r \in Requests |-> Undef]
  /\ userQuery = [r \in Requests |-> Undef]
  /\ resp = [r \in Requests |-> NoResponse]
  /\ nresp = [r \in Requests |-> 0]
  /\ trace = [r \in Requests |-> NoTrace]

\* no function is under study
NoCall == [fn |-> "none", query |-> <<>>, specs |-> <<>>]

Init ==
  /\ ServerInit
  /\ BrowserInit
  /\ fnHist = NoCall

\* the response is written twice (a res.json without its return)
SendTwice(r, response) ==
  /\ resp' = [resp EXCEPT ![r] = response]
  /\ nresp' = [nresp EXCEPT ![r] = @ + 2]

\* res.json / res.status().json: one response leaves for request r
Send(r, response) ==
  /\ resp' = [resp EXCEPT ![r] = response]
  /\ nresp' = [nresp EXCEPT ![r] = @ + 1]

\* a POST /generate-visualization arrives with body {query: q}
Receive(r, q) ==
  /\ pc[r] = "idle"
  /\ reqQuery' = [reqQuery EXCEPT ![r] = q]
  /\ pc' = [pc EXCEPT ![r] = "received"]
  /\ UNCHANGED <<version, HF_API_KEY, userQuery, resp, nresp, trace>>
  /\ UNCHANGED <<fnHist, browserVars>>

\* if (!userQuery) return res.status(400).json({error: 'Query is required.'})
RejectMissing(r) ==
  /\ pc[r] = "received"
  /\ QueryIsMissing(reqQuery[r])
  /\ userQuery' = [userQuery EXCEPT ![Local(r)] = reqQuery[r]]
  /\ Send(r, Response(400, Str(QueryIsRequired), NoSpec))
  /\ pc' = [pc EXCEPT ![r] = "done"]
  /\ UNCHANGED <<version, HF_API_KEY, reqQuery, trace>>
  /\ UNCHANGED <<fnHist, browserVars>>

\* revision 2 without an API key: the keyword fallback is sent as it is.
\* A query that is not a string makes toLowerCase throw outside any try:
\* the handler's promise rejects and nothing is sent.
NoKeyFallback(r) ==
  /\ pc[r] = "received"
  /\ ~QueryIsMissing(reqQuery[r])
  /\ SkipsLLM(version, HF_API_KEY)
  /\ userQuery' = [userQuery EXCEPT ![Local(r)] = reqQuery[r]]
  /\ trace' = [trace EXCEPT ![r].translated = TRUE]
  /\ IF IsString(reqQuery[r])
       THEN /\ Send(r, Response(200, Undef, FallbackFor(version, reqQuery[r].s)))
            /\ pc' = [pc EXCEPT ![r] = "done"]
       ELSE /\ pc' = [pc EXCEPT ![r] = "rejected"]
            /\ UNCHANGED <<resp, nresp>>
  /\ UNCHANGED <<version, HF_API_KEY, reqQuery>>
  /\ UNCHANGED <<fnHist, browserVars>>

\* the prompt is built and fetch(...) is issued; the handler awaits it
CallLLM(r) ==
  /\ pc[r] = "received"
  /\ ~QueryIsMissing(reqQuery[r])
  /\ ~SkipsLLM(version, HF_API_KEY)
  /\ userQuery' = [userQuery EXCEPT ![Local(r)] = reqQuery[r]]
  /\ trace' = [trace EXCEPT ![r].outbound = @ + 1,
                            ![r].overlap = \E s \in Requests \ {r} : pc[s] = "awaitLLM"]
  /\ pc' = [pc EXCEPT ![r] = "awaitLLM"]
  /\ UNCHANGED <<version, HF_API_KEY, reqQuery, resp, nresp>>
  /\ UNCHANGED <<fnHist, browserVars>>

\* the service call settles with outcome o and the handler runs to its end:
\* extraction, fallback when nothing was extracted, validation, res.json.
\* The fallback throws on a query that is not a string; the catch block
\* calls it again, it throws again, and nothing is sent.
Resume(r, o) ==
  /\ pc[r] = "awaitLLM"
  /\ LET uq == userQuery[Local(r)]
         ext == ExtractFor(version, o)
         fb == UsesFallback(ext)
     IN  /\ trace' = [trace EXCEPT ![r].llmFailed = (o.kind # "text"),
                                   ![r].translated = fb,
                                   ![r].validated = ~(fb /\ ~IsString(uq))]
         /\ IF fb /\ ~IsString(uq)
              THEN /\ pc' = [pc EXCEPT ![r] = "rejected"]
                   /\ UNCHANGED <<resp, nresp>>
              ELSE /\ Send(r, Response(200, Undef,
                          ValidateFor(version,
                            IF fb THEN FallbackFor(version, uq.s) ELSE ext.obj)))
                   /\ pc' = [pc EXCEPT ![r] = "done"]
  /\ UNCHANGED <<version, HF_API_KEY, reqQuery, userQuery>>
  /\ UNCHANGED <<fnHist, browserVars>>

Handle(r) ==
  \/ RejectMissing(r)
  \/ NoKeyFallback(r)
  \/ CallLLM(r)
  \/ \E o \in LLMOutcomes : Resume(r, o)

\* one request at a time is looked at, with queries of up to MaxWords words
Next ==
  \/ \E q \in QueryValues(MaxWords) : Receive(1, q)
  \/ \E r \in Requests : RejectMissing(r)
  \/ \E r \in Requests : NoKeyFallback(r)
  \/ \E r \in Requests : CallLLM(r)
  \/ \E r \in Requests, o \in LLMOutcomes : Resume(r, o)

Spec == Init /\ [][Next]_vars

\* the service call settles (fetch resolves or rejects) and every handler
\* step that is ready runs
FairSpec == Spec /\ \A r \in Requests : WF_vars(Handle(r))

\* several requests in flight, their steps interleaved
NextConc ==
  \/ \E r \in Requests, q \in ConcQueryValues : Receive(r, q)
  \/ \E r \in Requests : RejectMissing(r)
  \/ \E r \in Requests : NoKeyFallback(r)
  \/ \E r \in Requests : CallLLM(r)
  \/ \E r \in Requests, o \in ConcLLMOutcomes : Resume(r, o)

SpecConc == Init /\ [][NextConc]_vars

\* ------------------------------------------ the functions on their own
\* words the queries handed to generateFallbackVisualization are made of
FnWords ==
  {<<"S", "h", "o", "w">>, <<"a">>, <<"s", "a", "l", "e", "s">>, <<"t", "i", "m", "e">>, <<"v", "s">>, <<"b", "a", "r">>, <<"r", "e", "v", "e", "n", "u", "e">>,
   Rep("x", TitleLimit - 5)}

\* the example queries the page offers
exampleQueries ==
  {<<"S", "h", "o", "w", " ", "a", " ", "b", "a", "r", " ", "c", "h", "a", "r", "t", " ", "o", "f", " ", "m", "o", "n", "t", "h", "l", "y", " ", "s", "a", "l", "e", "s">>,
   <<"C", "r", "e", "a", "t", "e", " ", "a", " ", "l", "i", "n", "e", " ", "c", "h", "a", "r", "t", " ", "s", "h", "o", "w", "i", "n", "g", " ", "w", "e", "b", "s", "i", "t", "e", " ", "t", "r", "a", "f", "f", "i", "c", " ", "o", "v", "e", "r", " ", "t", "i", "m", "e">>,
   <<"D", "i", "s", "p", "l", "a", "y", " ", "a", " ", "s", "c", "a", "t", "t", "e", "r", " ", "p", "l", "o", "t", " ", "o", "f", " ", "p", "r", "i", "c", "e", " ", "v", "s", " ", "q", "u", "a", "l", "i", "t", "y", " ", "r", "a", "t", "i", "n", "g", "s">>,
   <<"G", "e", "n", "e", "r", "a", "t", "e", " ", "a", "n", " ", "a", "r", "e", "a", " ", "c", "h", "a", "r", "t", " ", "o", "f", " ", "r", "e", "v", "e", "n", "u", "e", " ", "g", "r", "o", "w", "t", "h">>,
   <<"S", "h", "o", "w", " ", "c", "o", "r", "r", "e", "l", "a", "t", "i", "o", "n", " ", "b", "e", "t", "w", "e", "e", "n", " ", "a", "g", "e", " ", "a", "n", "d", " ", "i", "n", "c", "o", "m", "e">>}

\* the non-empty queries the handler passes to the fallback
FnQueries ==
  {JoinWords(ws) : ws \in UNION {[1..k -> FnWords] : k \in 1..FnMaxWords}}
    \cup exampleQueries

\* the objects handed to validateAndCleanSpec, field by field
FnGeoms == {Undef, Num(5), Str(<<>>), Str(<<"l", "i", "n", "e">>), Str(<<"p", "i", "e">>)}

FnTitles ==
  {Undef, Num(7), Str(<<>>), Str(<<"S", "a", "l", "e", "s">>), Str(Rep("x", MaxTitle)),
   Str(Rep("x", MaxTitle + 1))}

FnXs ==
  {Undef, Str(<<>>), Str(<<"m", "o", "n", "t", "h">>), Str(Rep("x", MaxAxis)),
   Str(Rep("x", MaxAxis + 1))}

FnYs == {Undef, Num(0), Str(<<"s", "a", "l", "e", "s">>), Str(Rep("x", MaxAxis + 1))}

FnSpecs ==
  {MkSpec(g, ti, xx, yy) : g \in FnGeoms, ti \in FnTitles, xx \in FnXs, yy \in FnYs}

\* a query for the fallback of either revision, or an object for the
\* validator of revision 2
FnInit ==
  /\ ServerInit
  /\ BrowserInit
  /\ \/ \E q \in FnQueries :
          fnHist = [fn |-> "generateFallbackVisualization", query |-> q, specs |-> <<>>]
     \/ /\ version = 2
        /\ \E s \in FnSpecs :
             fnHist = [fn |-> "validateAndCleanSpec", query |-> <<>>, specs |-> <<s>>]

\* generateFallbackVisualization(query) of the revision that runs
ApplyFallback ==
  /\ fnHist.fn = "generateFallbackVisualization"
  /\ fnHist.specs = <<>>
  /\ fnHist' = [fnHist EXCEPT !.specs =
                  <<IF version = 1 THEN GenerateFallbackV1(fnHist.query)
                                   ELSE GenerateFallback(fnHist.query)>>]
  /\ UNCHANGED <<serverVars, browserVars>>

\* validateAndCleanSpec applied to the last object, at most twice over
ApplyValidate ==
  /\ version = 2
  /\ Len(fnHist.specs) \in 1..2
  /\ fnHist' = [fnHist EXCEPT !.specs =
                  Append(fnHist.specs, validateAndCleanSpec(fnHist.specs[Len(fnHist.specs)]))]
  /\ UNCHANGED <<serverVars, browserVars>>

NextFn ==
  \/ ApplyFallback
  \/ ApplyValidate

SpecFn == FnInit /\ [][NextFn]_vars

\* ------------------------------------------------------------ the page
\* what the user types into #userInput
TypedInputs == {<<>>, <<" ", "s", "a", "l", "e", "s", " ">>}

\* String.prototype.trim
Trim(str) ==
  IF \A i \in 1..Len(str) : IsSpace(str[i])
    THEN <<>>
    ELSE LET first == CHOOSE i \in 1..Len(str) :
                        ~IsSpace(str[i]) /\ \A j \in 1..(i - 1) : IsSpace(str[j])
             last == CHOOSE i \in 1..Len(str) :
                       ~IsSpace(str[i]) /\ \A j \in (i + 1)..Len(str) : IsSpace(str[j])
         IN  SubSeq(str, first, last)

PleaseEnter == <<"P", "l", "e", "a", "s", "e", " ", "e", "n", "t", "e", "r", " ", "a", " ", "d", "e", "s", "c", "r", "i", "p", "t", "i", "o", "n", " ", "f", "o", "r", " ", "t", "h", "e", " ", "c", "h", "a", "r", "t", ".">>

FailedToGenerate == <<"F", "a", "i", "l", "e", "d", " ", "t", "o", " ", "g", "e", "n", "e", "r", "a", "t", "e", " ", "c", "h", "a", "r", "t">>

\* the page opened against the current server
ClientInit ==
  /\ Init
  /\ version = 2
  /\ HF_API_KEY = Undef

\* the user edits the input field
TypeInput(v) ==
  /\ userInput' = v
  /\ UNCHANGED <<serverVars, fnHist, generateButton, fetches, myChart, specDisplay, alerted>>

\* generateVisualization up to its first await, with value in the input
\* field: an empty query alerts and returns, any other disables the button
\* and sends the request
StartGenerate(value) ==
  LET query == Trim(value)
  IN  IF query = <<>>
        THEN /\ alerted' = PleaseEnter
             /\ UNCHANGED <<generateButton, fetches>>
        ELSE /\ Len(fetches) < MaxFetches
             /\ generateButton' = ButtonBusy
             /\ fetches' = Append(fetches, [query |-> query, at |-> "fetch", ok |-> FALSE])
             /\ UNCHANGED alerted

\* a click on the generate button; a disabled button fires no click
ClickGenerate ==
  /\ ~generateButton.disabled
  /\ StartGenerate(userInput)
  /\ UNCHANGED <<serverVars, fnHist, userInput, myChart, specDisplay>>

\* Enter (without Shift) in the input field
PressEnter ==
  /\ StartGenerate(userInput)
  /\ UNCHANGED <<serverVars, fnHist, userInput, myChart, specDisplay>>

\* a click on the example button of query
ClickExample(query) ==
  /\ userInput' = query
  /\ StartGenerate(query)
  /\ UNCHANGED <<serverVars, fnHist, myChart, specDisplay>>

\* catch and finally of call i
Failed(i) ==
  /\ alerted' = FailedToGenerate
  /\ generateButton' = ButtonReady
  /\ fetches' = [fetches EXCEPT ![i].at = "done", ![i].ok = FALSE]
  /\ UNCHANGED <<myChart, specDisplay>>

\* the fetch of call i settles: with a 200 response, with an error
\* response, or rejected
FetchSettles(i, outcome) ==
  /\ fetches[i].at = "fetch"
  /\ CASE outcome = "ok" ->
             /\ fetches' = [fetches EXCEPT ![i].at = "spec"]
             /\ UNCHANGED <<generateButton, myChart, specDisplay, alerted>>
       [] outcome = "notOk" ->
             /\ fetches' = [fetches EXCEPT ![i].at = "errorData"]
             /\ UNCHANGED <<generateButton, myChart, specDisplay, alerted>>
       [] outcome = "rejected" -> Failed(i)
  /\ UNCHANGED <<serverVars, fnHist, userInput>>

\* response.json() of call i resolves: the spec is rendered and shown, or
\* the error of the server is thrown; then the button is restored
BodyRead(i) ==
  /\ fetches[i].at \in {"spec", "errorData"}
  /\ IF fetches[i].at = "spec"
       THEN /\ myChart' = i
            /\ specDisplay' = i
            /\ generateButton' = ButtonReady
            /\ fetches' = [fetches EXCEPT ![i].at = "done", ![i].ok = TRUE]
            /\ UNCHANGED alerted
       ELSE Failed(i)
  /\ UNCHANGED <<serverVars, fnHist, userInput>>

NextClient ==
  \/ \E v \in TypedInputs : TypeInput(v)
  \/ ClickGenerate
  \/ PressEnter
  \/ \E q \in exampleQueries : ClickExample(q)
  \/ \E i \in 1..Len(fetches), o \in {"ok", "notOk", "rejected"} : FetchSettles(i, o)
  \/ \E i \in 1..Len(fetches) : BodyRead(i)

SpecClient == ClientInit /\ [][NextClient]_vars

TypeOK ==
  /\ version \in {1, 2}
  /\ pc \in [Requests -> {"idle", "received", "awaitLLM", "done", "rejected"}]
  /\ \A r \in Requests : nresp[r] \in 0..1

\* ================================================================ claims
NonEmptyString(v) == IsString(v) /\ v.s # <<>>

Conformant(sp) ==
  /\ IsString(sp.geom) /\ sp.geom.s \in validGeoms
  /\ NonEmptyString(sp.title) /\ Len(sp.title.s) <= MaxTitle
  /\ NonEmptyString(sp.x) /\ Len(sp.x.s) <= MaxAxis
  /\ NonEmptyString(sp.y) /\ Len(sp.y.s) <= MaxAxis

\* C1: every 200 response to a non-empty string query carries a spec with
\* geom in {point, line, bar, area} and title, x, y non-empty strings of at
\* most 100, 50 and 50 characters.
C1_SchemaConformance ==
  \A r \in Requests :
    (resp[r].status = 200 /\ NonEmptyString(reqQuery[r])) => Conformant(resp[r].spec)

\* C2: every 200 response carries a spec that went through the validator
\* after it was produced and before it was sent.
C2_ValidatorOnEveryPath ==
  \A r \in Requests : resp[r].status = 200 => trace[r].validated

\* C3: a missing or empty query is answered 400 {error: 'Query is
\* required.'} with neither the keyword translation nor the service call
\* ever made for it; a non-empty string query is answered 200, never 400.
C3_MissingQueryRejected ==
  \A r \in Requests :
    /\ (pc[r] # "idle" /\ reqQuery[r] \in {Undef, Str(<<>>)}) =>
         /\ ~trace[r].translated
         /\ trace[r].outbound = 0
         /\ nresp[r] > 0 =>
              resp[r] = Response(400, Str(QueryIsRequired), NoSpec)
    /\ (nresp[r] > 0 /\ NonEmptyString(reqQuery[r])) =>
         /\ resp[r].status = 200
         /\ resp[r].error = Undef

C3_Witness ==
  \E r \in Requests :
    /\ reqQuery[r] = Str(<<>>)
    /\ nresp[r] = 1
    /\ resp[r].status = 400

C5_NoOutboundCall ==
  \A r \in Requests : trace[r].outbound = 0

\* C6: two requests with the same query string receive the same response
\* body.
C6_Determinism ==
  \A r1, r2 \in Requests :
    (/\ resp[r1].status = 200
     /\ resp[r2].status = 200
     /\ IsString(reqQuery[r1])
     /\ reqQuery[r1] = reqQuery[r2]) => resp[r1].spec = resp[r2].spec

\* C7: a request with a non-empty string query is eventually answered, with
\* a spec, and no request is ever answered twice.
C7_ExactlyOneResponse ==
  /\ [](\A r \in Requests : nresp[r] <= 1)
  /\ \A r \in Requests :
       (pc[r] = "received" /\ NonEmptyString(reqQuery[r]))
         ~> (nresp[r] = 1 /\ resp[r].status = 200 /\ resp[r].spec # NoSpec)

C7_Witness ==
  \E r \in Requests :
    /\ NonEmptyString(reqQuery[r])
    /\ trace[r].outbound = 1
    /\ pc[r] = "done"
    /\ nresp[r] = 1
    /\ resp[r].status = 200

\* the trigger keywords of the four geometries
GeomTriggerKeywords ==
  <<<<"b", "a", "r">>, <<"c", "o", "l", "u", "m", "n">>, <<"c", "o", "m", "p", "a", "r", "e">>, <<"c", "o", "m", "p", "a", "r", "i", "s", "o", "n">>, <<"b", "e", "t", "w", "e", "e", "n">>, <<"c", "a", "t", "e", "g", "o", "r", "i", "c", "a", "l">>,
    <<"l", "i", "n", "e">>, <<"t", "r", "e", "n", "d">>, <<"t", "i", "m", "e">>, <<"o", "v", "e", "r", " ", "t", "i", "m", "e">>, <<"t", "i", "m", "e", "l", "i", "n", "e">>, <<"p", "r", "o", "g", "r", "e", "s", "s", "i", "o", "n">>,
    <<"c", "h", "a", "n", "g", "e">>, <<"s", "e", "r", "i", "e", "s">>,
    <<"s", "c", "a", "t", "t", "e", "r">>, <<"c", "o", "r", "r", "e", "l", "a", "t", "i", "o", "n">>, <<"r", "e", "l", "a", "t", "i", "o", "n", "s", "h", "i", "p">>, <<"v", "s">>, <<"a", "g", "a", "i", "n", "s", "t">>,
    <<"c", "o", "m", "p", "a", "r", "e", "d", " ", "t", "o">>, <<"p", "l", "o", "t">>,
    <<"a", "r", "e", "a">>, <<"f", "i", "l", "l", "e", "d">>, <<"c", "u", "m", "u", "l", "a", "t", "i", "v", "e">>, <<"s", "t", "a", "c", "k", "e", "d">>, <<"u", "n", "d", "e", "r", " ", "c", "u", "r", "v", "e">>>>

\* C8: a query with no trigger keyword of any geometry gets geom = "bar".
C8_TieBreakBar ==
  \A r \in Requests :
    (/\ resp[r].status = 200
     /\ NonEmptyString(reqQuery[r])
     /\ ~SomeIncluded(ToLowerCase(reqQuery[r].s), GeomTriggerKeywords))
      => resp[r].spec.geom = Str(<<"b", "a", "r">>)

TemporalKeywords ==
  <<<<"m", "o", "n", "t", "h">>, <<"y", "e", "a", "r">>, <<"q", "u", "a", "r", "t", "e", "r">>, <<"w", "e", "e", "k">>, <<"d", "a", "y">>, <<"t", "i", "m", "e">>, <<"d", "a", "t", "e">>, <<"p", "e", "r", "i", "o", "d">>>>

CategoricalKeywords ==
  <<<<"c", "a", "t", "e", "g", "o", "r", "y">>, <<"t", "y", "p", "e">>, <<"r", "e", "g", "i", "o", "n">>, <<"l", "o", "c", "a", "t", "i", "o", "n">>, <<"d", "e", "p", "a", "r", "t", "m", "e", "n", "t">>, <<"p", "r", "o", "d", "u", "c", "t">>,
    <<"b", "r", "a", "n", "d">>>>

\* the labels a temporal keyword maps to
TemporalLabels ==
  {<<"m", "o", "n", "t", "h", "s">>, <<"y", "e", "a", "r", "s">>, <<"q", "u", "a", "r", "t", "e", "r", "s">>, <<"w", "e", "e", "k", "s">>, <<"t", "i", "m", "e", "_", "p", "e", "r", "i", "o", "d", "s">>, <<"t", "i", "m", "e">>}

\* C9: a query with a temporal and a categorical x-axis keyword gets the
\* temporal label as x.
C9_TemporalPriority ==
  \A r \in Requests :
    (/\ resp[r].status = 200
     /\ IsString(reqQuery[r])
     /\ SomeIncluded(ToLowerCase(reqQuery[r].s), TemporalKeywords)
     /\ SomeIncluded(ToLowerCase(reqQuery[r].s), CategoricalKeywords))
      => (IsString(resp[r].spec.x) /\ resp[r].spec.x.s \in TemporalLabels)

\* the responses a request with query q can receive when it is the only
\* request the server handles
SoloResponses(v, key, q) ==
  IF ~Truthy(q) THEN {Response(400, Str(QueryIsRequired), NoSpec)}
  ELSE IF v = 2 /\ ~Truthy(key)
    THEN IF IsString(q) THEN {Response(200, Undef, FallbackFor(v, q.s))} ELSE {}
  ELSE LET exts == {ExtractFor(v, o) : o \in ConcLLMOutcomes}
       IN  {Response(200, Undef, ValidateFor(v, e.obj)) : e \in {x \in exts : x.found}}
             \cup (IF IsString(q) /\ \E e \in exts : ~e.found
                     THEN {Response(200, Undef, ValidateFor(v, FallbackFor(v, q.s)))}
                     ELSE {})

\* C10: under any interleaving of the requests' steps each response is one
\* the request could receive alone, a response once sent is not touched by
\* another request's steps, and no step writes the process-wide
\* configuration.
C10_Independent ==
  [][/\ HF_API_KEY' = HF_API_KEY
     /\ \A r \in Requests :
          /\ nresp[r] > 0 => (resp'[r] = resp[r] /\ nresp'[r] = nresp[r])
          /\ nresp'[r] > 0 =>
               resp'[r] \in SoloResponses(version, HF_API_KEY, reqQuery'[r])]_vars

C10_Witness ==
  \E r1, r2 \in Requests :
    /\ r1 # r2
    /\ trace[r1].overlap
    /\ reqQuery[r1] # reqQuery[r2]
    /\ resp[r1].status = 200
    /\ resp[r2].status = 200
    /\ trace[r2].outbound = 1

\* the maximal runs of non-space characters of str
Tokens(str) ==
  {SubSeq(str, i, CHOOSE j \in i..Len(str) :
                    /\ \A k \in i..j : ~IsSpace(str[k])
                    /\ (j = Len(str) \/ IsSpace(str[j + 1]))) :
     i \in {i \in 1..Len(str) : ~IsSpace(str[i]) /\ (i = 1 \/ IsSpace(str[i - 1]))}}

\* the keyword set the scoring rule gives each candidate geometry
ScoreKeywords(g) ==
  CASE g = "bar" -> {<<"b", "a", "r">>, <<"c", "o", "l", "u", "m", "n">>, <<"c", "o", "m", "p", "a", "r", "e">>, <<"c", "o", "m", "p", "a", "r", "i", "s", "o", "n">>, <<"b", "e", "t", "w", "e", "e", "n">>, <<"c", "a", "t", "e", "g", "o", "r", "i", "c", "a", "l">>}
    [] g = "line" -> {<<"l", "i", "n", "e">>, <<"t", "r", "e", "n", "d">>, <<"t", "i", "m", "e">>, <<"o", "v", "e", "r", " ", "t", "i", "m", "e">>, <<"t", "i", "m", "e", "l", "i", "n", "e">>, <<"p", "r", "o", "g", "r", "e", "s", "s", "i", "o", "n">>, <<"c", "h", "a", "n", "g", "e">>, <<"s", "e", "r", "i", "e", "s">>}
    [] g = "point" -> {<<"s", "c", "a", "t", "t", "e", "r">>, <<"c", "o", "r", "r", "e", "l", "a", "t", "i", "o", "n">>, <<"r", "e", "l", "a", "t", "i", "o", "n", "s", "h", "i", "p">>, <<"v", "s">>, <<"a", "g", "a", "i", "n", "s", "t">>, <<"c", "o", "m", "p", "a", "r", "e", "d", " ", "t", "o">>, <<"p", "l", "o", "t">>}
    [] g = "area" -> {<<"a", "r", "e", "a">>, <<"f", "i", "l", "l", "e", "d">>, <<"c", "u", "m", "u", "l", "a", "t", "i", "v", "e">>, <<"s", "t", "a", "c", "k", "e", "d">>, <<"u", "n", "d", "e", "r", " ", "c", "u", "r", "v", "e">>}

\* twice the score: 2 per keyword that is a substring, 1 more per keyword
\* that is also a whole token
TwiceScore(g, lowerQuery) ==
  2 * Cardinality({k \in ScoreKeywords(g) : Includes(lowerQuery, k)})
    + Cardinality({k \in ScoreKeywords(g) : Includes(lowerQuery, k) /\ k \in Tokens(lowerQuery)})

\* bar, line, point, area in turn; a later one wins only when strictly greater
ScoreWinner(lowerQuery) ==
  LET Step(best, g) == IF TwiceScore(g, lowerQuery) > TwiceScore(best, lowerQuery) THEN g ELSE best
      w1 == Step("bar", "line")
      w2 == Step(w1, "point")
  IN  Step(w2, "area")

\* the fallback has returned the spec of a query
FallbackReturned == fnHist.fn = "generateFallbackVisualization" /\ Len(fnHist.specs) >= 1

\* C11: for every query the geometry of the keyword classifier is the
\* candidate with the highest score (1.0 per keyword occurring as a
\* substring, 0.5 more per keyword that is a whole token), the candidates
\* compared in the order bar, line, point, area, ties to the earlier one.
C11_HighestScoreWins ==
  FallbackReturned =>
    fnHist.specs[1].geom = Str(
      CASE ScoreWinner(ToLowerCase(fnHist.query)) = "bar" -> <<"b", "a", "r">>
        [] ScoreWinner(ToLowerCase(fnHist.query)) = "line" -> <<"l", "i", "n", "e">>
        [] ScoreWinner(ToLowerCase(fnHist.query)) = "point" -> <<"p", "o", "i", "n", "t">>
        [] ScoreWinner(ToLowerCase(fnHist.query)) = "area" -> <<"a", "r", "e", "a">>)

\* index of the first keyword of the list that str includes, 0 when none
FirstKeyword(str, keywords) ==
  IF SomeIncluded(str, keywords)
  THEN CHOOSE i \in 1..Len(keywords) :
         /\ Includes(str, keywords[i])
         /\ \A j \in 1..(i - 1) : ~Includes(str, keywords[j])
  ELSE 0

\* the label of the i-th temporal keyword
TemporalLabel(i) ==
  CASE i = 1 -> <<"m", "o", "n", "t", "h", "s">>
    [] i = 2 -> <<"y", "e", "a", "r", "s">>
    [] i = 3 -> <<"q", "u", "a", "r", "t", "e", "r", "s">>
    [] i = 4 -> <<"w", "e", "e", "k", "s">>
    [] OTHER -> <<"t", "i", "m", "e", "_", "p", "e", "r", "i", "o", "d", "s">>

\* C12: the first temporal keyword of the lower-cased query, in the order
\* month, year, quarter, week, day, time, date, period, determines x
\* (months, years, quarters, weeks, else time_periods); a query with no
\* temporal and no categorical keyword gets x = "categories".
C12_XAxisExtraction ==
  FallbackReturned =>
    LET lowerQuery == ToLowerCase(fnHist.query)
        i == FirstKeyword(lowerQuery, TemporalKeywords)
    IN  /\ i > 0 => fnHist.specs[1].x = Str(TemporalLabel(i))
        /\ (i = 0 /\ ~SomeIncluded(lowerQuery, CategoricalKeywords))
             => fnHist.specs[1].x = Str(<<"c", "a", "t", "e", "g", "o", "r", "i", "e", "s">>)

\* the quantitative keywords, in the order they are checked
QuantitativeKeywords ==
  <<<<"s", "a", "l", "e", "s">>, <<"r", "e", "v", "e", "n", "u", "e">>, <<"p", "r", "i", "c", "e">>, <<"c", "o", "s", "t">>, <<"c", "o", "u", "n", "t">>, <<"a", "m", "o", "u", "n", "t">>, <<"t", "o", "t", "a", "l">>, <<"r", "a", "t", "i", "n", "g">>, <<"s", "c", "o", "r", "e">>>>

\* C13: the first quantitative keyword of the lower-cased query, in the
\* order sales, revenue, price, cost, count, amount, total, rating, score,
\* is returned verbatim as y; a query with none of them gets y = "values".
C13_YAxisExtraction ==
  FallbackReturned =>
    LET lowerQuery == ToLowerCase(fnHist.query)
        i == FirstKeyword(lowerQuery, QuantitativeKeywords)
    IN  fnHist.specs[1].y = Str(IF i > 0 THEN QuantitativeKeywords[i] ELSE <<"v", "a", "l", "u", "e", "s">>)

\* the command verbs and articles title synthesis strips
CommandVerbs ==
  <<<<"s", "h", "o", "w">>, <<"c", "r", "e", "a", "t", "e">>, <<"d", "i", "s", "p", "l", "a", "y">>, <<"g", "e", "n", "e", "r", "a", "t", "e">>, <<"m", "a", "k", "e">>, <<"b", "u", "i", "l", "d">>, <<"p", "l", "o", "t">>, <<"c", "h", "a", "r", "t">>, <<"g", "r", "a", "p", "h">>>>

Articles == <<<<"a">>, <<"a", "n">>, <<"t", "h", "e">>>>

IsLetter(c) == \E i \in 1..26 : c = UpperLetters[i] \/ c = LowerLetters[i]

\* C14: a leading command verb is stripped first, then a leading article,
\* and only then the first character is capitalised: whenever what remains
\* of the query after stripping begins with a letter, the title begins
\* with an upper-case letter.
C14_StripThenCapitalize ==
  FallbackReturned =>
    LET rest == StripLeading(StripLeading(fnHist.query, CommandVerbs), Articles)
    IN  (rest # <<>> /\ IsLetter(rest[1]))
          => \E i \in 1..26 : fnHist.specs[1].title.s[1] = UpperLetters[i]

\* str ends with the characters of tail
EndsWith(str, tail) ==
  /\ Len(str) >= Len(tail)
  /\ SubSeq(str, Len(str) - Len(tail) + 1, Len(str)) = tail

\* C15 as stated: a title is cut exactly when it exceeds 60 characters, to
\* its first 57 characters and an ellipsis; a title of at most 60
\* characters is returned whole, and none is longer than 60.
C15_TruncatedAbove60 ==
  FallbackReturned =>
    LET title == fnHist.specs[1].title.s
        whole == Capitalize(fnHist.query)
    IN  /\ Len(title) <= 60
        /\ Len(whole) <= 60 => ~EndsWith(title, Ellipsis)
        /\ (Len(whole) > 60 /\ StripLeading(StripLeading(whole, CommandVerbs), Articles) = whole)
             => title = Substring0(whole, 57) \o Ellipsis

\* C15, amended: the title is cut exactly when the capitalised query
\* exceeds 50 characters, to its first 47 characters and "..." (of which
\* revision 2 then strips a leading verb and article); a query of at most
\* 50 characters gets its title whole, and no title is longer than 50.
C15_TruncatedAbove50 ==
  FallbackReturned =>
    LET title == fnHist.specs[1].title.s
        whole == Capitalize(fnHist.query)
        cut == Substring0(whole, 47) \o Ellipsis
    IN  /\ Len(title) <= 50
        /\ Len(whole) > 50 => (EndsWith(title, Ellipsis) /\ EndsWith(cut, title))
        /\ Len(whole) <= 50 =>
             /\ ~EndsWith(title, Ellipsis)
             /\ (EndsWith(whole, title) \/ title = GeneratedVisualization)

\* a query of 51 characters has been cut to a title of 50
C15_Witness ==
  /\ FallbackReturned
  /\ Len(fnHist.query) = 51
  /\ Len(fnHist.specs[1].title.s) = 50
  /\ EndsWith(fnHist.specs[1].title.s, Ellipsis)

\* C18: validateAndCleanSpec is idempotent; an object that already has
\* geom in the enum and non-empty string title (<= 100 characters), x and
\* y (<= 50 characters) comes back with exactly those four values; and
\* changing one input field changes no other output field.
C18_ValidatorIdempotent ==
  /\ (fnHist.fn # "none" /\ Len(fnHist.specs) >= 3) => fnHist.specs[3] = fnHist.specs[2]
  /\ (fnHist.fn = "validateAndCleanSpec" /\ Len(fnHist.specs) >= 2) =>
       LET s == fnHist.specs[1]
           out == fnHist.specs[2]
           same(o, fields) == \A f \in fields : o[f] = out[f]
       IN  /\ Conformant(s) => out = s
           /\ \A g \in FnGeoms :
                same(validateAndCleanSpec([s EXCEPT !.geom = g]), {"title", "x", "y"})
           /\ \A ti \in FnTitles :
                same(validateAndCleanSpec([s EXCEPT !.title = ti]), {"geom", "x", "y"})
           /\ \A xx \in FnXs :
                same(validateAndCleanSpec([s EXCEPT !.x = xx]), {"geom", "title", "y"})
           /\ \A yy \in FnYs :
                same(validateAndCleanSpec([s EXCEPT !.y = yy]), {"geom", "title", "x"})

\* a conformant object with a title of exactly 100 characters and an x of
\* exactly 50 has been validated twice
C18_Witness ==
  /\ fnHist.fn = "validateAndCleanSpec"
  /\ Len(fnHist.specs) = 3
  /\ Conformant(fnHist.specs[1])
  /\ Len(fnHist.specs[1].title.s) = MaxTitle
  /\ Len(fnHist.specs[1].x.s) = MaxAxis

\* the calls of generateVisualization still waiting for the server
Pending == {i \in 1..Len(fetches) : fetches[i].at # "done"}

\* C16: once every request has completed, the chart and the specification
\* on the page are those of the most recently submitted query, whatever
\* the order in which the responses arrived.
C16_LatestQueryShown ==
  (/\ fetches # <<>>
   /\ Pending = {}
   /\ fetches[Len(fetches)].ok)
    => (/\ myChart > 0
        /\ fetches[myChart].query = fetches[Len(fetches)].query
        /\ specDisplay > 0
        /\ fetches[specDisplay].query = fetches[Len(fetches)].query)

\* C17: at most one request is in flight at any time, and while one is
\* pending the generate button is disabled and reads 'Generating...'.
C17_OneRequestInFlight ==
  /\ Cardinality(Pending) <= 1
  /\ Pending # {} => generateButton = ButtonBusy
====
